---- MODULE Spec2Model ----
(***************************************************************************)
(* Model of treeherder/extract/extract_alerts.py (ExtractAlerts.run and    *)
(* ExtractAlerts.extract): the checkpointed, chunked extraction of         *)
(* performance alert summaries from MySQL into BigQuery, with the          *)
(* checkpoint and the schema fingerprint kept in Redis.                    *)
(*                                                                         *)
(* One invocation is a walk of pc through the statements of extract.       *)
(* Redis and the source table outlive an invocation; the process may be    *)
(* terminated at any statement (crash) and run again.                      *)
(*                                                                         *)
(* The module also models Command.handle of                                *)
(* treeherder/etl/management/commands/read_pulse_pushes.py, which shares   *)
(* no state with the extraction: SpecPulse walks handle_pc through it.     *)
(***************************************************************************)
EXTENDS Integers, Sequences, FiniteSets, TLC

\* ------------------------------------------------------------------ bounds
MaxRecords == 2     \* rows of performance_alert_summary, and largest chunk_size
MaxTime == 2        \* timestamps are 1..MaxTime; 0 is the epoch
MaxRounds == 3      \* source queries explored per invocation
MaxSources == 2     \* entries of settings.PULSE_PUSH_SOURCES
MaxKeys == 2        \* routing keys of one entry

\* ------------------------------------------------------- program constants
YEAR == 3           \* mo_times.YEAR, in model time units
DAY == 1            \* mo_times.DAY, in model time units

VARIABLES
    source,         \* treeherder.performance_alert_summary, indexed by s.id
    chunk_size,     \* settings.extractor.chunk_size
    redis,          \* [key |-> bytes of the checkpoint, sql |-> fingerprint]
    pc,             \* statement of run/extract the process is at
    app_name,       \* settings.extractor.app_name is set (extract_alerts.json)
    force, restart, merge,
    last_modified, alert_id,   \* the in-memory cursor
    canonical_sql,  \* canonical_sql.sql of this invocation
    acc,            \* documents of the current chunk (ids, ascending)
    trace,          \* calls made on collaborators in this invocation
    schema,         \* what the schema check of this invocation found
    loop,           \* how the while loop was left
    outcome,        \* how the last invocation ended
    start_key,      \* redis.key when the invocation started
    uncommitted,    \* ids passed to extend whose checkpoint is not yet written
    prev,           \* summary of the earlier invocations
    PULSE_PUSH_SOURCES,   \* settings.PULSE_PUSH_SOURCES of read_pulse_pushes
    handle_pc,      \* statement of Command.handle the command is at
    source_index,   \* position of "for source in sources"
    key_index,      \* position of "for routing_key in source[...]"
    new_bindings,   \* the list new_bindings of handle
    calls           \* calls handle made on the connection and the consumer

vars == <<source, chunk_size, redis, pc, app_name, force, restart, merge,
          last_modified, alert_id, canonical_sql, acc, trace, schema, loop,
          outcome, start_key, uncommitted, prev,
          PULSE_PUSH_SOURCES, handle_pc, source_index, key_index,
          new_bindings, calls>>

\* ------------------------------------------------------------------- data
Times == 1..MaxTime

\* Date.today(): the latest timestamp of the model
Today == MaxTime

\* last_year = Date.today() - YEAR + DAY
LastYear == Today - YEAR + DAY

\* A summary row: created, last_updated, and the largest last_updated of its
\* performance_alert children.  A row is never updated before it is created.
\* Rows that no query can tell apart are drawn once:
\*   a_last_updated = 0 stands for no child row (the LEFT JOIN yields NULL) and
\*   for a child not updated after its summary;
\*   a row created at or before last_year is drawn as updated today.
Rows ==
    { r \in [created : Times, last_updated : Times, a_last_updated : 0..MaxTime] :
        /\ r.last_updated >= r.created
        /\ r.a_last_updated \in {0} \cup ((r.last_updated + 1)..MaxTime)
        /\ r.created <= LastYear => (r.last_updated = Today /\ r.a_last_updated = 0) }

\* ids are assigned in creation order
Sources ==
    UNION { { s \in [1..n -> Rows] :
                \A i, j \in 1..n : i < j => s[i].created <= s[j].created }
            : n \in 0..MaxRecords }

Sqls == {"sql_a", "sql_b"}

None == <<>>

\* value2json(state).encode("utf8") and json2value(state.decode("utf8"))
value2json(state) == <<"[", state[1], ",", state[2], "]">>

json2value(bytes) == <<bytes[2], bytes[4]>>

\* lexicographic order on (created, id)
CheckpointLeq(c1, c2) == c1[1] < c2[1] \/ (c1[1] = c2[1] /\ c1[2] <= c2[2])

Ops(t, op) == { i \in 1..Len(t) : t[i].op = op }

Delivered(t) ==
    UNION { { t[i].arg[k] : k \in 1..Len(t[i].arg) }
            : i \in { j \in Ops(t, "extend") : t[j].ok } }

\* ------------------------------------------------------------ the query
\* WHERE s.created > last_year
\*   AND (s.last_updated > last_modified OR a.last_updated > last_modified)
Matches(row, since) ==
    /\ row.created > LastYear
    /\ (row.last_updated > since \/ row.a_last_updated > since)

\* the ids s, ascending (ORDER BY s.id)
RECURSIVE Ascending(_)
Ascending(s) ==
    IF s = {} THEN <<>>
    ELSE LET m == CHOOSE x \in s : \A y \in s : x <= y
         IN  <<m>> \o Ascending(s \ {m})

\* LIMIT n
Limit(seq, n) == SubSeq(seq, 1, IF Len(seq) < n THEN Len(seq) ELSE n)

\* get_ids, run through extractor.get_sql, source.query and construct_docs:
\* one document per summary id, in id order
GetIds(since) ==
    Limit(Ascending({ i \in DOMAIN source : Matches(source[i], since) }), chunk_size)

\* ------------------------------------------------- decisions of extract
ResetState_always(state) == TRUE

ResetState_ignores_restart(state) == state = None

\* if restart or not state
ResetState(state) == restart \/ state = None

SchemaChanged_never(old_sql, sql) == FALSE

\* if old_sql and old_sql.decode("utf8") != canonical_sql.sql
SchemaChanged(old_sql, sql) == old_sql # "" /\ old_sql # sql

MustAbort_ignores_force(old_sql, sql) == SchemaChanged(old_sql, sql)

\* the drift is an error (Log.error raises) unless force is set
MustAbort(old_sql, sql) == SchemaChanged(old_sql, sql) /\ ~force

\* last_doc = acc[-1]; last_modified, alert_id = last_doc.created, last_doc.id
LastDocState(docs) == <<source[docs[Len(docs)]].created, docs[Len(docs)]>>

ShortChunk_never(docs) == FALSE

\* if len(acc) < settings.extractor.chunk_size: break
ShortChunk(docs) == Len(docs) < chunk_size

\* ------------------------------------------- read_pulse_pushes: data
Exchanges == {"exchange/a", "exchange/b"}

RoutingKeys == {"#", "key"}

\* settings.PULSE_PUSH_SOURCES: a list of {"exchange": ..., "routing_keys": [...]}
PulseSources ==
    LET keys == UNION { [1..n -> RoutingKeys] : n \in 0..MaxKeys }
        entries == [exchange : Exchanges, routing_keys : keys]
    IN  UNION { [1..n -> entries] : n \in 0..MaxSources }

\* consumer.get_binding_str(exchange.name, routing_key): one string made of
\* the two
get_binding_str(name, routing_key) == <<name, " ", routing_key>>

\* handle has not been called
InitHandle ==
    /\ handle_pc = "idle"
    /\ source_index = 0 /\ key_index = 0
    /\ new_bindings = <<>>
    /\ calls = <<>>

\* the extraction job runs on its own: the command is not part of it
NoCommand ==
    /\ PULSE_PUSH_SOURCES = <<>>
    /\ InitHandle

command == <<PULSE_PUSH_SOURCES, handle_pc, source_index, key_index,
             new_bindings, calls>>

\* ---------------------------------------------------------------- Init
\* the settings file and the source table
InitConfig ==
    /\ source \in Sources
    /\ chunk_size \in 1..MaxRecords
    /\ app_name \in BOOLEAN

\* no invocation has run yet
InitProcess ==
    /\ pc = "idle"
    /\ force = FALSE /\ restart = FALSE /\ merge = FALSE
    /\ last_modified = 0 /\ alert_id = 0
    /\ canonical_sql = ""
    /\ acc = <<>>
    /\ trace = <<>>
    /\ schema = "unchecked"
    /\ loop = "none"
    /\ outcome = "none"
    /\ start_key = None
    /\ uncommitted = {}
    /\ prev = [exit |-> "none", eligible |-> {}, delivered |-> {},
               uncommitted |-> {}]

\* the first invocation ever: Redis holds neither key
Init ==
    /\ InitConfig
    /\ redis = [key |-> None, sql |-> ""]
    /\ InitProcess
    /\ NoCommand

\* What earlier invocations can have left in Redis: no checkpoint, the zero
\* state, or the state of a row that ended a chunk; a fingerprint is only ever
\* written after the checkpoint key has been set.
PriorStores ==
    { r \in [key : {None, value2json(<<0, 0>>)}
                     \cup { value2json(<<source[i].created, i>>) : i \in DOMAIN source },
              sql : {""} \cup Sqls] :
        r.sql # "" => r.key # None }

\* one invocation, started on any store content
InitOnce ==
    /\ InitConfig
    /\ redis \in PriorStores
    /\ InitProcess
    /\ NoCommand

config == <<source, chunk_size, app_name>>
flags == <<force, restart, merge>>
cursor == <<last_modified, alert_id>>
history == <<start_key, prev>>

Call(op, arg, ok) == trace' = Append(trace, [op |-> op, arg |-> arg, ok |-> ok])

Except_retries ==
    /\ pc' = "fetch"
    /\ loop' = "except"

\* the handler of line 121: Log.warning, then on to the final merge
Except ==
    /\ pc' = "final_merge"
    /\ loop' = "except"

SchemaAbort_warns ==
    /\ pc' = "fetch"
    /\ UNCHANGED loop

\* Log.error("Schema has changed") raises inside the try of line 40
SchemaAbort == Except

Raise_swallowed ==
    /\ pc' = "idle"
    /\ outcome' = "returned"

\* an exception leaves extract; run logs it with Log.error, which raises again
Raise ==
    /\ pc' = "idle"
    /\ outcome' = "raised"

\* ---------------------------------------------- what an invocation did
\* the state recovered by RECOVER LAST SQL STATE (a redis_get event of the key
\* carries it), or <<>> if that was not reached
Loaded(t) ==
    LET gets == { i \in Ops(t, "redis_get") : t[i].arg[1] = "key" }
    IN  IF gets = {} THEN <<>> ELSE t[CHOOSE i \in gets : TRUE].arg[2]

\* the rows a query with the loaded cursor matches, whatever the chunk size
Eligible(t) ==
    IF Loaded(t) = <<>> THEN {}
    ELSE { i \in DOMAIN source : Matches(source[i], Loaded(t)[1]) }

\* how the invocation ended: "completed" is a return after a loop left by break
Exit ==
    CASE outcome = "none" -> "none"
      [] outcome = "crashed" -> "crashed"
      [] outcome = "returned" /\ loop \in {"break_empty", "break_short"} -> "completed"
      [] OTHER -> "failed"

\* what a terminated invocation leaves behind outside of Redis
Summary ==
    [exit |-> "crashed", eligible |-> Eligible(trace),
     delivered |-> Delivered(trace), uncommitted |-> uncommitted]

\* the memory of a process that has just started
Fresh ==
    /\ trace' = <<>>
    /\ acc' = <<>>
    /\ uncommitted' = {}
    /\ last_modified' = 0 /\ alert_id' = 0
    /\ canonical_sql' = ""
    /\ schema' = "unchecked"
    /\ loop' = "none"

\* ------------------------------------------------------------- actions
\* ExtractAlerts.run(force, restart, merge)
run(f, r, m) ==
    /\ pc = "idle"
    /\ force' = f /\ restart' = r /\ merge' = m
    /\ prev' = IF outcome = "crashed" THEN prev
                ELSE [exit |-> Exit, eligible |-> {}, delivered |-> {},
                      uncommitted |-> {}]
    /\ start_key' = redis.key
    /\ Fresh
    /\ outcome' = "running"
    /\ pc' = "extract"
    /\ UNCHANGED command
    /\ UNCHANGED <<config, redis>>

check_app_name_skipped ==
    /\ pc = "extract"
    /\ pc' = "setup_destination"
    /\ UNCHANGED command
    /\ UNCHANGED <<config, redis, flags, cursor, canonical_sql, acc, trace,
                   schema, loop, outcome, uncommitted, history>>

\* if not settings.extractor.app_name: Log.error(...)
check_app_name ==
    /\ pc = "extract"
    /\ IF app_name
         THEN pc' = "setup_destination" /\ UNCHANGED outcome
         ELSE Raise
    /\ UNCHANGED command
    /\ UNCHANGED <<config, redis, flags, cursor, canonical_sql, acc, trace,
                   schema, loop, uncommitted, history>>

\* destination = bigquery.Dataset(...).get_or_create_table(...)
setup_destination(ok) ==
    /\ pc = "setup_destination"
    /\ Call("get_or_create_table", <<>>, ok)
    /\ IF ok
         THEN /\ pc' = IF merge THEN "merge_shards" ELSE "recover_state"
              /\ UNCHANGED outcome
         ELSE Raise
    /\ UNCHANGED command
    /\ UNCHANGED <<config, redis, flags, cursor, canonical_sql, acc,
                   schema, loop, uncommitted, history>>

pre_merge_skipped(ok) ==
    /\ pc = "merge_shards"
    /\ pc' = "recover_state"
    /\ UNCHANGED command
    /\ UNCHANGED <<config, redis, flags, cursor, canonical_sql, acc, trace,
                   schema, loop, outcome, uncommitted, history>>

pre_merge_failure_ignored(ok) ==
    /\ pc = "merge_shards"
    /\ Call("merge_shards", <<>>, ok)
    /\ pc' = "recover_state"
    /\ UNCHANGED command
    /\ UNCHANGED <<config, redis, flags, cursor, canonical_sql, acc,
                   schema, loop, outcome, uncommitted, history>>

\* if merge: destination.merge_shards()
pre_merge(ok) ==
    /\ pc = "merge_shards"
    /\ Call("merge_shards", <<>>, ok)
    /\ IF ok
         THEN pc' = "recover_state" /\ UNCHANGED loop
         ELSE Except
    /\ UNCHANGED command
    /\ UNCHANGED <<config, redis, flags, cursor, canonical_sql, acc,
                   schema, outcome, uncommitted, history>>

\* RECOVER LAST SQL STATE
recover_state ==
    /\ pc = "recover_state"
    /\ LET state == redis.key
           reset == ResetState(state)
           value == IF reset THEN <<0, 0>> ELSE json2value(state)
       IN  /\ IF reset
                THEN /\ redis' = [redis EXCEPT !.key = value2json(<<0, 0>>)]
                     /\ trace' = trace \o
                          << [op |-> "redis_get", arg |-> <<"key", value>>, ok |-> TRUE],
                             [op |-> "redis_set",
                              arg |-> <<"key", value2json(<<0, 0>>)>>, ok |-> TRUE] >>
                ELSE /\ UNCHANGED redis
                     /\ Call("redis_get", <<"key", value>>, TRUE)
           /\ last_modified' = value[1]
           /\ alert_id' = value[2]
    /\ pc' = "scan_schema"
    /\ UNCHANGED command
    /\ UNCHANGED <<config, flags, canonical_sql, acc, schema, loop, outcome,
                   uncommitted, history>>

\* extractor = MySqlSnowflakeExtractor(...); canonical_sql = extractor.get_sql(...)
\* Until a fingerprint is stored the texts are interchangeable: sql_a is first.
scan_schema(sql, ok) ==
    /\ pc = "scan_schema"
    /\ redis.sql = "" => sql = "sql_a"
    /\ Call("get_sql", <<>>, ok)
    /\ IF ok
         THEN /\ canonical_sql' = sql
              /\ pc' = "ensure_schema"
              /\ UNCHANGED loop
         ELSE /\ UNCHANGED canonical_sql
              /\ Except
    /\ UNCHANGED command
    /\ UNCHANGED <<config, redis, flags, cursor, acc, schema, outcome,
                   uncommitted, history>>

\* ENSURE SCHEMA HAS NOT CHANGED SINCE LAST RUN
ensure_schema ==
    /\ pc = "ensure_schema"
    /\ LET old_sql == redis.sql
           get == [op |-> "redis_get", arg |-> <<"sql", old_sql>>, ok |-> TRUE]
           set == [op |-> "redis_set", arg |-> <<"sql", canonical_sql>>, ok |-> TRUE]
       IN  IF MustAbort(old_sql, canonical_sql)
             THEN /\ schema' = "aborted"
                  /\ trace' = Append(trace, get)
                  /\ UNCHANGED redis
                  /\ SchemaAbort
             ELSE /\ schema' = IF SchemaChanged(old_sql, canonical_sql) THEN "forced"
                               ELSE IF old_sql = "" THEN "first" ELSE "same"
                  /\ trace' = trace \o <<get, set>>
                  /\ redis' = [redis EXCEPT !.sql = canonical_sql]
                  /\ pc' = "fetch"
                  /\ UNCHANGED loop
    /\ UNCHANGED command
    /\ UNCHANGED <<config, flags, cursor, canonical_sql, acc, outcome,
                   uncommitted, history>>

\* one pass of the while loop up to "if not acc: break"
fetch(result) ==
    /\ pc = "fetch"
    /\ Cardinality(Ops(trace, "query")) < MaxRounds
    /\ LET docs == GetIds(last_modified)
       IN  \/ /\ result = "query_failed"
              /\ Call("query", last_modified, FALSE)
              /\ acc' = <<>>
              /\ Except
           \/ /\ result = "construct_docs_failed"
              /\ trace' = trace \o
                   << [op |-> "query", arg |-> last_modified, ok |-> TRUE],
                      [op |-> "construct_docs", arg |-> <<>>, ok |-> FALSE] >>
              /\ acc' = <<>>
              /\ Except
           \/ /\ result = "ok"
              /\ trace' = trace \o
                   << [op |-> "query", arg |-> last_modified, ok |-> TRUE],
                      [op |-> "construct_docs", arg |-> docs, ok |-> TRUE] >>
              /\ acc' = docs
              /\ IF docs = <<>>
                   THEN pc' = "final_merge" /\ loop' = "break_empty"
                   ELSE pc' = "extend" /\ loop' = "running"
    /\ UNCHANGED command
    /\ UNCHANGED <<config, redis, flags, cursor, canonical_sql, schema, outcome,
                   uncommitted, history>>

extend_failure_commits(ok) ==
    /\ pc = "extend"
    /\ Call("extend", acc, ok)
    /\ pc' = "record_state"
    /\ uncommitted' = { acc[k] : k \in 1..Len(acc) }
    /\ UNCHANGED command
    /\ UNCHANGED <<config, redis, flags, cursor, canonical_sql, acc, schema,
                   loop, outcome, history>>

\* r.etl.timestamp = Date.now(); destination.extend(acc)
extend(ok) ==
    /\ pc = "extend"
    /\ Call("extend", acc, ok)
    /\ IF ok
         THEN /\ pc' = "record_state"
              /\ uncommitted' = { acc[k] : k \in 1..Len(acc) }
              /\ UNCHANGED loop
         ELSE /\ UNCHANGED uncommitted
              /\ Except
    /\ UNCHANGED command
    /\ UNCHANGED <<config, redis, flags, cursor, canonical_sql, acc, schema,
                   outcome, history>>

record_state_keeps_cursor ==
    /\ pc = "record_state"
    /\ LET state == LastDocState(acc)
       IN  /\ redis' = [redis EXCEPT !.key = value2json(state)]
           /\ Call("redis_set", <<"key", value2json(state)>>, TRUE)
    /\ uncommitted' = {}
    /\ IF ShortChunk(acc)
         THEN pc' = "final_merge" /\ loop' = "break_short"
         ELSE pc' = "fetch" /\ UNCHANGED loop
    /\ UNCHANGED command
    /\ UNCHANGED <<config, flags, cursor, canonical_sql, acc, schema, outcome,
                   history>>

\* RECORD THE STATE, then "if len(acc) < chunk_size: break"
record_state ==
    /\ pc = "record_state"
    /\ LET state == LastDocState(acc)
       IN  /\ last_modified' = state[1]
           /\ alert_id' = state[2]
           /\ redis' = [redis EXCEPT !.key = value2json(state)]
           /\ Call("redis_set", <<"key", value2json(state)>>, TRUE)
    /\ uncommitted' = {}
    /\ IF ShortChunk(acc)
         THEN pc' = "final_merge" /\ loop' = "break_short"
         ELSE pc' = "fetch" /\ UNCHANGED loop
    /\ UNCHANGED command
    /\ UNCHANGED <<config, flags, canonical_sql, acc, schema, outcome, history>>

final_merge_unless_failed(ok) ==
    /\ pc = "final_merge"
    /\ IF loop = "except" THEN UNCHANGED trace ELSE Call("merge_shards", <<>>, ok)
    /\ pc' = "idle"
    /\ outcome' = "returned"
    /\ UNCHANGED command
    /\ UNCHANGED <<config, redis, flags, cursor, canonical_sql, acc, schema,
                   loop, uncommitted, history>>

\* the merge of lines 126-130, then Log.stop and the return to run
final_merge(ok) ==
    /\ pc = "final_merge"
    /\ Call("merge_shards", <<>>, ok)
    /\ pc' = "idle"
    /\ outcome' = "returned"
    /\ UNCHANGED command
    /\ UNCHANGED <<config, redis, flags, cursor, canonical_sql, acc, schema,
                   loop, uncommitted, history>>

\* the process is terminated from outside: its memory is lost, Redis, the
\* source and what was delivered stay
crash ==
    /\ pc # "idle"
    /\ pc' = "idle"
    /\ outcome' = "crashed"
    /\ prev' = Summary
    /\ Fresh
    /\ force' = FALSE /\ restart' = FALSE /\ merge' = FALSE
    /\ start_key' = None
    /\ UNCHANGED command
    /\ UNCHANGED <<config, redis>>

Next ==
    \/ \E f, r, m \in BOOLEAN : run(f, r, m)
    \/ check_app_name
    \/ \E ok \in BOOLEAN : setup_destination(ok)
    \/ \E ok \in BOOLEAN : pre_merge(ok)
    \/ recover_state
    \/ \E sql \in Sqls, ok \in BOOLEAN : scan_schema(sql, ok)
    \/ ensure_schema
    \/ \E result \in {"ok", "query_failed", "construct_docs_failed"} : fetch(result)
    \/ \E ok \in BOOLEAN : extend(ok)
    \/ record_state
    \/ \E ok \in BOOLEAN : final_merge(ok)
    \/ crash

Spec == Init /\ [][Next]_vars

\* a single invocation of run, which may be terminated
NextOnce ==
    \/ \E f, r, m \in BOOLEAN : outcome = "none" /\ run(f, r, m)
    \/ check_app_name
    \/ \E ok \in BOOLEAN : setup_destination(ok)
    \/ \E ok \in BOOLEAN : pre_merge(ok)
    \/ recover_state
    \/ \E sql \in Sqls, ok \in BOOLEAN : scan_schema(sql, ok)
    \/ ensure_schema
    \/ \E result \in {"ok", "query_failed", "construct_docs_failed"} : fetch(result)
    \/ \E ok \in BOOLEAN : extend(ok)
    \/ record_state
    \/ \E ok \in BOOLEAN : final_merge(ok)
    \/ crash

SpecOnce == InitOnce /\ [][NextOnce]_vars

\* every store content an invocation of Spec starts from is one InitOnce draws
StoresArePrior == redis \in PriorStores

\* ------------------------------------------------ read_pulse_pushes: handle
extraction == <<source, chunk_size, redis, pc, app_name, force, restart, merge,
                last_modified, alert_id, canonical_sql, acc, trace, schema,
                loop, outcome, start_key, uncommitted, prev>>

Did(op, arg, ok) == calls' = Append(calls, [op |-> op, arg |-> arg, ok |-> ok])

\* the position of the loops after the routing key at (i, j): the next key of
\* the source, or the next source, or the end of "for source in sources"
AfterKey(i, j) ==
    IF j < Len(PULSE_PUSH_SOURCES[i].routing_keys)
      THEN /\ handle_pc' = "bind_to"
           /\ source_index' = i /\ key_index' = j + 1
      ELSE /\ handle_pc' = IF i < Len(PULSE_PUSH_SOURCES) THEN "declare"
                           ELSE "prune_bindings"
           /\ source_index' = i + 1 /\ key_index' = 0

\* an exception leaves handle (and the "with pulse_conn" block)
Propagate ==
    /\ handle_pc' = "raised"
    /\ UNCHANGED <<source_index, key_index>>

\* sources = settings.PULSE_PUSH_SOURCES; if not sources: raise ...
handle ==
    /\ handle_pc = "idle"
    /\ IF PULSE_PUSH_SOURCES = <<>>
         THEN handle_pc' = "ImproperlyConfigured"
         ELSE handle_pc' = "connect"
    /\ new_bindings' = <<>>
    /\ UNCHANGED <<PULSE_PUSH_SOURCES, source_index, key_index, calls>>
    /\ UNCHANGED extraction

\* with pulse_conn as connection: consumer = PushConsumer(connection, "resultsets")
connect(ok) ==
    /\ handle_pc = "connect"
    /\ Did("connect", <<>>, ok)
    /\ IF ok
         THEN /\ handle_pc' = "declare"
              /\ source_index' = 1 /\ key_index' = 0
         ELSE Propagate
    /\ UNCHANGED <<PULSE_PUSH_SOURCES, new_bindings>>
    /\ UNCHANGED extraction

\* exchange = Exchange(source["exchange"], ...); exchange(connection).declare()
declare(ok) ==
    /\ handle_pc = "declare"
    /\ Did("declare", PULSE_PUSH_SOURCES[source_index].exchange, ok)
    /\ IF ok THEN AfterKey(source_index, 0) ELSE Propagate
    /\ UNCHANGED <<PULSE_PUSH_SOURCES, new_bindings>>
    /\ UNCHANGED extraction

bind_to_not_recorded(ok) ==
    /\ handle_pc = "bind_to"
    /\ LET s == PULSE_PUSH_SOURCES[source_index]
       IN  Did("bind_to", <<s.exchange, s.routing_keys[key_index]>>, ok)
    /\ IF ok THEN AfterKey(source_index, key_index) ELSE Propagate
    /\ UNCHANGED <<PULSE_PUSH_SOURCES, new_bindings>>
    /\ UNCHANGED extraction

\* consumer.bind_to(exchange, routing_key); new_bindings.append(new_binding_str)
bind_to(ok) ==
    /\ handle_pc = "bind_to"
    /\ LET s == PULSE_PUSH_SOURCES[source_index]
           routing_key == s.routing_keys[key_index]
       IN  /\ Did("bind_to", <<s.exchange, routing_key>>, ok)
           /\ IF ok
                THEN /\ new_bindings' =
                          Append(new_bindings, get_binding_str(s.exchange, routing_key))
                     /\ AfterKey(source_index, key_index)
                ELSE /\ UNCHANGED new_bindings
                     /\ Propagate
    /\ UNCHANGED PULSE_PUSH_SOURCES
    /\ UNCHANGED extraction

\* consumer.prune_bindings(new_bindings)
prune_bindings(ok) ==
    /\ handle_pc = "prune_bindings"
    /\ Did("prune_bindings", new_bindings, ok)
    /\ IF ok
         THEN handle_pc' = "run" /\ UNCHANGED <<source_index, key_index>>
         ELSE Propagate
    /\ UNCHANGED <<PULSE_PUSH_SOURCES, new_bindings>>
    /\ UNCHANGED extraction

\* consumer.run() is entered: the command listens
consumer_run ==
    /\ handle_pc = "run"
    /\ Did("run", <<>>, TRUE)
    /\ handle_pc' = "listening"
    /\ UNCHANGED <<PULSE_PUSH_SOURCES, source_index, key_index, new_bindings>>
    /\ UNCHANGED extraction

\* consumer.run() ends: by KeyboardInterrupt (handle returns) or by another
\* exception (it propagates)
stop_listening(interrupt) ==
    /\ handle_pc = "listening"
    /\ handle_pc' = IF interrupt THEN "stopped" ELSE "raised"
    /\ UNCHANGED <<PULSE_PUSH_SOURCES, source_index, key_index, new_bindings, calls>>
    /\ UNCHANGED extraction

\* the command, started once on any setting; no extraction job runs
InitPulse ==
    /\ PULSE_PUSH_SOURCES \in PulseSources
    /\ InitHandle
    /\ source = <<>> /\ chunk_size = 1 /\ app_name = FALSE
    /\ redis = [key |-> None, sql |-> ""]
    /\ InitProcess

NextPulse ==
    \/ handle
    \/ \E ok \in BOOLEAN : connect(ok)
    \/ \E ok \in BOOLEAN : declare(ok)
    \/ \E ok \in BOOLEAN : bind_to(ok)
    \/ \E ok \in BOOLEAN : prune_bindings(ok)
    \/ consumer_run
    \/ \E interrupt \in BOOLEAN : stop_listening(interrupt)

SpecPulse == InitPulse /\ [][NextPulse]_vars


\* ================================================================ claims
ZeroState == value2json(<<0, 0>>)

\* positions of the writes of the checkpoint key, and those made by the loop
KeyWrites(t) == { i \in Ops(t, "redis_set") : t[i].arg[1] = "key" }

LoopCommits(t) ==
    LET queries == Ops(t, "query")
    IN  { i \in KeyWrites(t) : \E q \in queries : q < i }

AllOk(t) == \A i \in 1..Len(t) : t[i].ok

LoopLeft == loop \in {"break_empty", "break_short"}

\* C1: within one invocation the checkpoints written by successive chunks of
\* the loop never go down in the lexicographic order on (created, id).
C1_CheckpointNeverRegresses ==
    \A i, j \in LoopCommits(trace) :
        i < j => CheckpointLeq(json2value(trace[i].arg[2]), json2value(trace[j].arg[2]))

\* C2: when the loop is left by break, every row that was eligible when the
\* invocation loaded its checkpoint has been passed to destination.extend;
\* after a crash and a resumed invocation the same holds of the rows eligible
\* in the crashed invocation, counting what it delivered before the crash.
C2_NoEligibleRecordSkipped ==
    LoopLeft =>
        /\ Eligible(trace) \subseteq Delivered(trace)
        /\ (prev.exit = "crashed" /\ ~restart) =>
              prev.eligible \subseteq (prev.delivered \cup Delivered(trace))

\* C3 (as amended): when the stored fingerprint differs and force is false, no
\* source query is made, and the checkpoint key holds what it held at the start
\* unless restart was asked for or no checkpoint was stored: then it holds the
\* zero state written before the schema check.
C3_AbortReadsNothingKeepsRecoveredState ==
    schema = "aborted" =>
        /\ Ops(trace, "query") = {}
        /\ redis.key = IF restart \/ start_key = None THEN ZeroState ELSE start_key

C3_Witness ==
    /\ schema = "aborted"
    /\ outcome = "returned"
    /\ ~restart
    /\ start_key # ZeroState
    /\ redis.key = start_key

\* C3 (as claimed): for every value of restart, an abort on schema drift makes
\* no source query and leaves the checkpoint key as it was at the start.
C3_AbortLeavesCheckpointUntouched ==
    schema = "aborted" =>
        /\ Ops(trace, "query") = {}
        /\ redis.key = start_key

\* the call that found the drift: the read of the fingerprint key
Detected(t) == CHOOSE i \in Ops(t, "redis_get") : t[i].arg[1] = "sql"

ZeroWrites(t) == { i \in KeyWrites(t) : t[i].arg[2] = ZeroState }

RoundSizes(t) ==
    LET r == Ascending(Ops(t, "construct_docs"))
    IN  [k \in 1..Len(r) |-> Len(t[r[k]].arg)]

\* C6: with exactly 2 * chunk_size eligible rows and no failure the loop makes
\* exactly 3 fetch rounds of chunk_size, chunk_size and 0 rows, 2 extends and
\* 2 checkpoint commits; in general the loop is left only on an empty round or
\* after a round shorter than chunk_size.
C6_TwoFullPagesThenEmptyRound ==
    LET sizes == RoundSizes(trace)
        n == Len(sizes)
    IN  /\ (loop = "break_empty" => sizes[n] = 0)
        /\ (loop = "break_short" => sizes[n] < chunk_size)
        /\ (AllOk(trace) /\ Loaded(trace) # <<>>
               /\ Cardinality(Eligible(trace)) = 2 * chunk_size) =>
              /\ n <= 3
              /\ \A k \in 1..n : sizes[k] = <<chunk_size, chunk_size, 0>>[k]
              /\ LoopLeft =>
                    /\ n = 3
                    /\ Cardinality(Ops(trace, "extend")) = 2
                    /\ Cardinality(LoopCommits(trace)) = 2

\* C7: an invocation (restart=false, same schema) that follows one that ran to
\* normal completion, with no change of the source in between, passes no
\* record to destination.extend and leaves the checkpoint key as it found it.
C7_SecondRunDeliversNothing ==
    (prev.exit = "completed" /\ ~restart /\ schema = "same" /\ AllOk(trace)) =>
        /\ Ops(trace, "extend") = {}
        /\ redis.key = start_key

\* C8: an invocation with restart=false that follows a terminated one starts
\* its first query at the last committed checkpoint, and whatever it delivers
\* again of the terminated invocation's deliveries lies in the one chunk that
\* was delivered but not committed.
C8_ResumeRedeliversAtMostOneChunk ==
    (prev.exit = "crashed" /\ ~restart /\ start_key # None /\ Loaded(trace) # <<>>) =>
        /\ Loaded(trace) = json2value(start_key)
        /\ \A q \in Ops(trace, "query") :
              (\A p \in Ops(trace, "query") : q <= p) => trace[q].arg = Loaded(trace)[1]
        /\ (Delivered(trace) \cap prev.delivered) \subseteq prev.uncommitted
        /\ Cardinality(Delivered(trace) \cap prev.delivered) <= chunk_size

\* calls of the loop body
LoopCalls(t) ==
    Ops(t, "query") \cup Ops(t, "construct_docs") \cup Ops(t, "extend")
        \cup LoopCommits(t)

\* C9: once the loop has been entered and the invocation has returned, whether
\* the loop was left by break or by a caught failure of query, transform or
\* delivery, exactly one merge_shards call follows the last call of the loop
\* (the call right before it is a call of the loop body), and it is the last
\* call made on any collaborator.
C9_OneMergeAfterLoopAndLast ==
    (outcome = "returned" /\ Ops(trace, "query") # {}) =>
        /\ trace[Len(trace)].op = "merge_shards"
        /\ (Len(trace) - 1) \in LoopCalls(trace)

C9_Witness ==
    /\ outcome = "returned"
    /\ loop = "except"
    /\ \E i \in Ops(trace, "extend") : ~trace[i].ok
    /\ trace[Len(trace)].op = "merge_shards"

\* the fingerprint read by the schema check differs from the current text
Drifted(t) ==
    /\ \E i \in Ops(t, "redis_get") : t[i].arg[1] = "sql"
    /\ t[Detected(t)].arg[2] \notin {"", canonical_sql}

\* C10: when a differing fingerprint is stored and force is true, validation
\* leaves the current canonical text under the fingerprint key and the run goes
\* on to its first fetch instead of aborting.
C10_ForceOverwritesFingerprintAndProceeds ==
    (force /\ Drifted(trace)) =>
        /\ redis.sql = canonical_sql
        /\ pc = "fetch" \/ Ops(trace, "query") # {}

C10_Witness ==
    /\ force
    /\ Drifted(trace)
    /\ redis.sql = canonical_sql
    /\ Ops(trace, "query") # {}

\* C11: with n eligible rows, 0 < n < chunk_size, and no failure, the loop makes
\* one fetch round, one destination.extend of the n rows and one checkpoint
\* commit, and is left by the short-chunk break with no second source query
\* (no failure: every call succeeds and the schema check lets the run go on).
C11_ShortPageEndsLoopAfterOneRound ==
    (AllOk(trace) /\ schema # "aborted" /\ Loaded(trace) # <<>>
        /\ Cardinality(Eligible(trace)) \in 1..(chunk_size - 1)) =>
          /\ Cardinality(Ops(trace, "query")) <= 1
          /\ \A e \in Ops(trace, "extend") :
                trace[e].arg = Ascending(Eligible(trace))
          /\ outcome = "returned" =>
                /\ loop = "break_short"
                /\ Cardinality(Ops(trace, "query")) = 1
                /\ Cardinality(Ops(trace, "extend")) = 1
                /\ Cardinality(LoopCommits(trace)) = 1

C11_Witness ==
    /\ AllOk(trace)
    /\ Loaded(trace) # <<>>
    /\ Cardinality(Eligible(trace)) \in 1..(chunk_size - 1)
    /\ outcome = "returned"
    /\ loop = "break_short"
    /\ Cardinality(Ops(trace, "extend")) = 1

\* the failed calls of the loop body: source query, transform, delivery
LoopFailures(t) ==
    { i \in 1..Len(t) :
        t[i].op \in {"query", "construct_docs", "extend"} /\ ~t[i].ok }

\* C12: a failure of a source query, a transform or a destination.extend in the
\* loop is caught: the final merge_shards is the next call made and the last,
\* so no source query, no destination.extend and no checkpoint write follows
\* the failure in this invocation, and the checkpoint key holds the value of
\* the last commit made before it (or what recovery left there).
C12_LoopFailureEndsLoopKeepsCommitThenMerges ==
    LET writes == KeyWrites(trace)
    IN  \A f \in LoopFailures(trace) :
            /\ loop = "except"
            /\ IF outcome = "returned"
                 THEN Len(trace) = f + 1 /\ trace[f + 1].op = "merge_shards"
                 ELSE Len(trace) = f /\ pc = "final_merge"
            /\ IF writes = {}
                 THEN redis.key = start_key
                 ELSE \E w \in writes :
                        /\ \A v \in writes : v <= w
                        /\ w < f
                        /\ redis.key = trace[w].arg[2]

C12_Witness ==
    /\ outcome = "returned"
    /\ LoopCommits(trace) # {}
    /\ \E f \in LoopFailures(trace) :
          /\ trace[f].op = "extend"
          /\ trace[Len(trace)].op = "merge_shards"
          /\ redis.key # ZeroState

\* the merge_shards call of lines 41-43, when it was made and failed
PreMergeFailed(t) == Len(t) >= 2 /\ t[2].op = "merge_shards" /\ ~t[2].ok /\ merge

\* every failed call of the invocation is a merge_shards call
OnlyMergesFail(t) == \A i \in 1..Len(t) : t[i].ok \/ t[i].op = "merge_shards"

C14_MissingAppNameFailsBeforeAnyIO ==
    /\ [](~app_name => (trace = <<>> /\ outcome \in {"none", "running", "raised", "crashed"}))
    /\ [][~app_name => redis' = redis]_vars

C14_Witness ==
    /\ ~app_name
    /\ outcome = "raised"
    /\ trace = <<>>
    /\ redis.key = start_key

\* the failures extract catches itself: the schema drift error of line 68, a
\* failure inside the try of line 40, a failure of the final merge
CaughtFailure ==
    \/ schema = "aborted"
    \/ loop = "except"
    \/ \E i \in Ops(trace, "merge_shards") : ~trace[i].ok

\* the failures raised outside the try of line 40
UncaughtFailure ==
    \/ ~app_name
    \/ \E i \in Ops(trace, "get_or_create_table") : ~trace[i].ok

\* C15 (as amended): after schema drift without force, a failure in the loop
\* or a failure of merge_shards, extract logs a warning and run returns to its
\* caller normally.  A missing job identity (like a failure to set up the
\* destination) is not caught by extract: run logs it with Log.error, which
\* raises again, so the exception propagates out of run.
C15_OnlyCaughtFailuresReturnNormally ==
    (pc = "idle" /\ outcome \in {"returned", "raised"}) =>
        /\ outcome = "raised" <=> UncaughtFailure
        /\ CaughtFailure => outcome = "returned"

C15_Witness ==
    /\ outcome = "returned"
    /\ schema = "aborted"
    /\ ~trace[Len(trace)].ok

\* C15 (as claimed): whichever of the four failures happens, the missing job
\* identity included, no exception propagates out of run.
C15_NoFailurePropagatesOutOfRun ==
    (\A i \in Ops(trace, "get_or_create_table") : trace[i].ok) => outcome # "raised"

C17_ChunksAreSequentialCommitFollowsDelivery ==
    /\ \A e \in Ops(trace, "extend") :
          /\ trace[e - 1].op = "construct_docs" /\ trace[e - 1].ok
          /\ trace[e - 2].op = "query" /\ trace[e - 2].ok
          /\ trace[e].arg = trace[e - 1].arg
    /\ \A w \in LoopCommits(trace) :
          LET batch == trace[w - 1].arg
              last == batch[Len(batch)]
          IN  /\ trace[w - 1].op = "extend" /\ trace[w - 1].ok
              /\ trace[w].arg[2] = value2json(<<source[last].created, last>>)
    /\ LET queries == Ops(trace, "query")
           commits == LoopCommits(trace)
       IN  \A q \in queries :
              /\ trace[q - 1].op = "redis_set"
              /\ (\E p \in queries : p < q) => (q - 1) \in commits

C17_Witness ==
    /\ Cardinality(LoopCommits(trace)) >= 2
    /\ \E e \in Ops(trace, "extend") : ~trace[e].ok
    /\ outcome = "returned"

\* C18: a step of an invocation changes the value stored under the fingerprint
\* key only if no fingerprint was stored, or a differing one was stored and
\* force is true, and it then stores the current canonical text; so when the
\* stored fingerprint equals the current one, and when the run aborts on drift
\* with force=false, the fingerprint at the end is the fingerprint at the start.
C18_FingerprintChangesOnlyWhenAbsentOrForced ==
    /\ [][redis'.sql # redis.sql =>
            /\ redis.sql = "" \/ (force /\ redis.sql # canonical_sql)
            /\ redis'.sql = canonical_sql]_vars
    /\ [](schema \in {"same", "aborted"} =>
            redis.sql = trace[Detected(trace)].arg[2])
    /\ [](schema = "aborted" => redis.sql # canonical_sql /\ ~force)

C18_Witness ==
    /\ schema = "aborted"
    /\ outcome = "returned"
    /\ redis.sql = trace[Detected(trace)].arg[2]
    /\ redis.sql # canonical_sql

\* C19: with a single runner, whenever a source query is about to be built the
\* cursor in memory is the value stored under the checkpoint key (every query
\* made was built from a cursor that was the stored one), and a fetch round
\* that returns no rows is followed by no destination.extend and no checkpoint
\* write.
C19_QueryCursorIsPersistedEmptyRoundWritesNothing ==
    /\ pc = "fetch" => <<last_modified, alert_id>> = json2value(redis.key)
    /\ \A q \in Ops(trace, "query") :
          trace[q].arg = IF (q - 1) \in KeyWrites(trace)
                           THEN json2value(trace[q - 1].arg[2])[1]
                           ELSE Loaded(trace)[1]
    /\ LET writes == Ops(trace, "extend") \cup KeyWrites(trace)
       IN  \A c \in Ops(trace, "construct_docs") :
              (trace[c].ok /\ trace[c].arg = <<>>) =>
                  /\ loop = "break_empty"
                  /\ \A i \in writes : i < c

C19_Witness ==
    /\ loop = "break_empty"
    /\ outcome = "returned"
    /\ LoopCommits(trace) # {}
    /\ <<last_modified, alert_id>> = json2value(redis.key)
    /\ redis.key # ZeroState

\* positions of the calls of one kind made by handle
Made(op) == { i \in 1..Len(calls) : calls[i].op = op }

\* every (exchange, routing_key) pair of the setting, source by source
RECURSIVE Pairs(_)
Pairs(srcs) ==
    IF srcs = <<>> THEN <<>>
    ELSE LET s == srcs[1]
         IN  [k \in 1..Len(s.routing_keys) |-> <<s.exchange, s.routing_keys[k]>>]
                 \o Pairs(Tail(srcs))

\* the pairs bound so far, in the order of the calls
Bound == LET b == Ascending({ i \in Made("bind_to") : calls[i].ok })
         IN  [k \in 1..Len(b) |-> calls[b[k]].arg]

\* C20: with PULSE_PUSH_SOURCES empty the command raises ImproperlyConfigured
\* with no call made (no connection, no binding); otherwise it never raises
\* it, prune_bindings is called at most once and only after every pair of every
\* source has been bound, with exactly the binding strings of the pairs bound
\* in this run, no pair is bound after it, and consumer.run is called only
\* right after prune_bindings has returned; a command that gets to
\* consumer.run has called prune_bindings exactly once.
C20_BindAllThenPruneOnceThenRun ==
    /\ PULSE_PUSH_SOURCES = <<>> =>
          calls = <<>> /\ handle_pc \in {"idle", "ImproperlyConfigured"}
    /\ PULSE_PUSH_SOURCES # <<>> => handle_pc # "ImproperlyConfigured"
    /\ \A p \in Made("prune_bindings") :
          /\ Made("prune_bindings") = {p}
          /\ \A b \in Made("bind_to") : b < p /\ calls[b].ok
          /\ Bound = Pairs(PULSE_PUSH_SOURCES)
          /\ calls[p].arg = [k \in 1..Len(Bound) |->
                                get_binding_str(Bound[k][1], Bound[k][2])]
    /\ \A r \in Made("run") :
          /\ calls[r - 1].op = "prune_bindings" /\ calls[r - 1].ok
          /\ r = Len(calls)
    /\ handle_pc \in {"run", "listening", "stopped"} =>
          Cardinality(Made("prune_bindings")) = 1
    /\ handle_pc \in {"listening", "stopped"} => Made("run") # {}

C20_Witness ==
    /\ handle_pc = "listening"
    /\ Len(PULSE_PUSH_SOURCES) = 2
    /\ Len(Bound) >= 3
    /\ \E p \in Made("prune_bindings") : Len(calls[p].arg) = Len(Bound)

====
